---- MODULE Spec2Model ----
(***************************************************************************)
(* Model of the headline survey apps (clickbait_test.py, relevance_test.py)*)
(* Each app is a Streamlit script: main() is re-run from the top on every  *)
(* interaction of a browser session, st.session_state survives between the *)
(* runs of one session, and all sessions share one PostgreSQL database     *)
(* (a survey table with a status counter per row, an evaluation table).    *)
(*                                                                         *)
(* Abstractions:                                                           *)
(*  - a survey row is [content, headline]; headline stands for the rest of *)
(*    the natural key (headline, beta, model); the columns original,       *)
(*    probability and reward are copied through unchanged and are left out *)
(*  - content 0 encodes SQL NULL / Python None                             *)
(*  - datetime.now() is a logical clock: start_time of session s is s,     *)
(*    submission_time is the number of Submit presses so far               *)
(*  - psycopg2 runs with autocommit off: the statements of one connection  *)
(*    form a transaction whose writes are private until conn.commit(),     *)
(*    and conn.close() without commit discards them; an UPDATE holds a row *)
(*    lock until the transaction ends (READ COMMITTED)                     *)
(***************************************************************************)
EXTENDS Integers, Sequences, FiniteSets, Bags, TLC

\* ceiling of the status counter: df["status"] < 8
C == 8
\* batch size main() asks for (10 in clickbait_test.py, 8 in relevance_test.py), scaled down
N == 2
\* number of distinct non-NULL content values in the survey table
NumContents == 2
\* number of concurrent browser sessions
NumSessions == 2
\* cap on the number of "Submit Answers" presses over all sessions
MaxPresses == 2
\* initial statuses range over C - StatusSlack .. C
StatusSlack == 1
\* largest n handed to sample_questions when it is checked as a pure function
MaxN == 3

Sessions == 1 .. NumSessions
Apps == {"clickbait", "relevance"}
\* options=["", "Yes", "No"] of st.radio
Options == {"", "Yes", "No"}
\* the options the modelled raters pick: main() only tells "" from an answer
RaterPicks == {"", "Yes"}
\* the texts the modelled raters leave in the comment field of the clickbait survey
CommentTexts == {"", "too sensational"}
\* SQL NULL / Python None in the comment column
NoComment == "NULL"

\* content 1 has two headline variants, every other content one
HeadlinesOf(c) == IF c = 1 THEN {1, 2} ELSE {1}

\* the rows of the survey table: unique natural keys, one row with NULL content
PoolRows ==
    {[content |-> c, headline |-> h] : c \in 0 .. NumContents, h \in {1, 2}}
      \ {r \in [content : 0 .. NumContents, headline : {1, 2}] :
            r.headline \notin HeadlinesOf(r.content)}

InitStatuses == (C - StatusSlack) .. C

Min(a, b) == IF a < b THEN a ELSE b

Range(f) == {f[i] : i \in DOMAIN f}

\* sequences of length n of pairwise distinct elements of S
Arrangements(S, n) ==
    {q \in [1 .. n -> S] : \A i, j \in 1 .. n : i # j => q[i] # q[j]}

----------------------------------------------------------------------------
(* load_pairs_data and sample_questions                                    *)

\* SELECT * FROM the survey table: the in-memory table maps each row to its status
load_pairs_data(store) == store

\* df[df["status"] < 8]
Eligible_NoFilter(df) == DOMAIN df
Eligible(df) == {r \in DOMAIN df : df[r] < C}

\* groupby('content'): the group keys; pandas drops the None key
Groups(df) == {r.content : r \in Eligible(df)} \ {0}

\* .apply(lambda x: x.sample(n=1)): one row of every group
Representatives(df) ==
    {g \in [Groups(df) -> Eligible(df)] : \A c \in Groups(df) : g[c].content = c}

\* the n of .sample(n=..., replace=False): clickbait_test.py hard-codes the
\* batch size main() uses, relevance_test.py uses the parameter
SampleSize(app, n) == IF app = "clickbait" THEN N ELSE n

\* the outcome of a ValueError (larger sample than population)
ValueError(df) == [ok |-> FALSE, rows |-> <<>>, df |-> df]

\* DataFrame.sample(n=k, replace=False).reset_index(drop=True)
Sample(S, k, df) ==
    IF k > Cardinality(S)
    THEN {ValueError(df)}
    ELSE {[ok |-> TRUE, rows |-> q, df |-> df] : q \in Arrangements(S, k)}

\* the sampling-time-increment variant: the table's counters move when rows are drawn
sample_questions_Claiming(app, df, n) ==
    UNION {{IF o.ok
            THEN [o EXCEPT !.df = [r \in DOMAIN df |->
                                     IF r \in Range(o.rows) THEN df[r] + 1 ELSE df[r]]]
            ELSE o : o \in Sample(Range(g), SampleSize(app, n), df)}
           : g \in Representatives(df)}

\* every outcome of sample_questions(df, n): the batch (or the error) and
\* the table df as the call leaves it (df_filtered is a copy: df is untouched)
sample_questions(app, df, n) ==
    UNION {Sample(Range(g), SampleSize(app, n), df) : g \in Representatives(df)}

----------------------------------------------------------------------------
(* State                                                                   *)

VARIABLES
    status,          \* survey table, committed: row -> status
    evaluations,     \* evaluation table, committed: a bag of records
    session_keys,    \* per session: the keys present in st.session_state
    df_pairs,        \* per session: st.session_state["df_pairs"]
    df_questions,    \* per session: st.session_state["df_questions"]
    judgment,        \* per session: st.session_state[question_key], by question
    user_comments,   \* per session: st.session_state["user_comments"]
    ui,              \* per session: what the last run of main() showed
    pc,              \* per session: position of the running main(), "idle" between runs
    idx,             \* per session: position of the submit loop in user_responses
    user_responses,  \* per session: the list main() builds while rendering
    submission_time, \* per session: submission_time of the running submission
    tx_ins,          \* per session: rows INSERTed by the open transaction
    tx_upd,          \* per session: row -> status increments of the open transaction
    now,             \* logical clock: Submit presses so far
    status0,         \* history: the survey table before any session
    committed,       \* history: the submissions that committed
    aborted,         \* history: the submissions whose run ended without commit
    sq               \* one call of sample_questions as a pure function

vars == <<status, evaluations, session_keys, df_pairs, df_questions, judgment,
          user_comments, ui,
          pc, idx, user_responses, submission_time, tx_ins, tx_upd, now,
          status0, committed, aborted, sq>>

store == <<status, evaluations>>
session_state == <<session_keys, df_pairs, df_questions, judgment>>
run_locals == <<pc, idx, user_responses, submission_time, tx_ins, tx_upd>>
history == <<status0, committed, aborted>>

NoIncrements == [r \in PoolRows |-> 0]
NoTable == [r \in PoolRows |-> 0]
NoCall == [app |-> "relevance", df |-> NoTable, n |-> 0, called |-> FALSE,
           out |-> ValueError(NoTable)]

\* no session has loaded the page yet, the evaluation table is empty
InitSessions ==
    /\ status0 = status
    /\ evaluations = EmptyBag
    /\ session_keys = [s \in Sessions |-> {}]
    /\ df_pairs = [s \in Sessions |-> NoTable]
    /\ df_questions = [s \in Sessions |-> <<>>]
    /\ judgment = [s \in Sessions |-> <<>>]
    /\ user_comments = [s \in Sessions |-> ""]
    /\ ui = [s \in Sessions |-> "none"]
    /\ pc = [s \in Sessions |-> "idle"]
    /\ idx = [s \in Sessions |-> 0]
    /\ user_responses = [s \in Sessions |-> <<>>]
    /\ submission_time = [s \in Sessions |-> 0]
    /\ tx_ins = [s \in Sessions |-> <<>>]
    /\ tx_upd = [s \in Sessions |-> NoIncrements]
    /\ now = 0
    /\ committed = {}
    /\ aborted = {}

Init ==
    /\ status \in [PoolRows -> InitStatuses]
    /\ \A r \in PoolRows : r.content = 0 => status[r] = C - StatusSlack
    /\ InitSessions
    /\ sq = NoCall

----------------------------------------------------------------------------
(* main(), from the top of the script to the widgets                       *)

\* if "df_pairs" not in st.session_state
NeedsLoad(s) == "df_pairs" \notin session_keys[s]

\* if "df_questions" not in st.session_state
NeedsSample_Always(s) == TRUE
NeedsSample(s) == "df_questions" \notin session_keys[s]

\* st.session_state["df_pairs"] after the load step of this run
LoadedTable(s) == IF NeedsLoad(s) THEN load_pairs_data(status) ELSE df_pairs[s]

\* the outcomes of the sample step of this run: a fresh draw, or the persisted batch
Draws(s) ==
    IF NeedsSample(s)
    THEN UNION {sample_questions(app, LoadedTable(s), N) : app \in Apps}
    ELSE {[ok |-> TRUE, rows |-> df_questions[s], df |-> LoadedTable(s)]}

\* the question_key entries after the widgets are rendered: "" for a new
\* question, the selected option otherwise; sel is this run's radio event
Rendered(s, o, sel) ==
    [i \in 1 .. Len(o.rows) |->
        IF i \in DOMAIN sel THEN sel[i]
        ELSE IF i \in DOMAIN judgment[s] /\ Len(judgment[s]) = Len(o.rows)
             THEN judgment[s][i] ELSE ""]

\* lines 66-135 of one run of session s with draw outcome o: the session
\* state it leaves; a ValueError of sample_questions ends the run
Script(s, o, sel) ==
    /\ df_pairs' = [df_pairs EXCEPT ![s] = o.df]
    /\ IF o.ok
       THEN /\ session_keys' = [session_keys EXCEPT
                                   ![s] = {"start_time", "df_pairs", "df_questions"}]
            /\ df_questions' = [df_questions EXCEPT ![s] = o.rows]
            /\ judgment' = [judgment EXCEPT ![s] = Rendered(s, o, sel)]
       ELSE /\ session_keys' = [session_keys EXCEPT ![s] = {"start_time", "df_pairs"}]
            /\ UNCHANGED <<df_questions, judgment>>

\* what a run that ends at the widgets shows
Page(o) == IF ~o.ok THEN "error" ELSE IF o.rows = <<>> THEN "empty" ELSE "form"

\* a run of main() without a widget event (first page load, or a rerun)
Render(s) ==
    /\ pc[s] = "idle"
    /\ \E o \in Draws(s) :
          /\ Script(s, o, <<>>)
          /\ ui' = [ui EXCEPT ![s] = Page(o)]
    /\ UNCHANGED <<store, user_comments, run_locals, now, history, sq>>

\* the rater picks option v of question i: a run of main() with that radio event
Select(s, i, v) ==
    /\ pc[s] = "idle"
    /\ "df_questions" \in session_keys[s]
    /\ i \in DOMAIN judgment[s]
    /\ v \in Options
    /\ v # judgment[s][i]
    /\ \E o \in Draws(s) :
          /\ Script(s, o, [j \in {i} |-> v])
          /\ ui' = [ui EXCEPT ![s] = Page(o)]
    /\ UNCHANGED <<store, user_comments, run_locals, now, history, sq>>

----------------------------------------------------------------------------
(* Submission                                                              *)

\* user_responses as built by the rendering loop
Responses(rows, js) ==
    [i \in 1 .. Len(rows) |->
        [content |-> rows[i].content, headline |-> rows[i].headline,
         judgment |-> js[i]]]

\* any(resp[judgment] == "" for resp in user_responses)
AnyMissing_OnlyFirst(resps) == resps # <<>> /\ resps[1].judgment = ""
AnyMissing(resps) == \E i \in DOMAIN resps : resps[i].judgment = ""

\* the rater presses "Submit Answers": a run of main() with the button set
SubmitAnswers(s) ==
    /\ pc[s] = "idle"
    /\ "df_questions" \in session_keys[s]
    /\ df_questions[s] # <<>>
    /\ now < MaxPresses
    /\ now' = now + 1
    /\ \E o \in Draws(s) :
          /\ Script(s, o, <<>>)
          /\ IF ~o.ok
             THEN /\ ui' = [ui EXCEPT ![s] = "error"]
                  /\ UNCHANGED run_locals
             ELSE LET resps == Responses(o.rows, Rendered(s, o, <<>>)) IN
                  IF AnyMissing(resps)
                  THEN /\ ui' = [ui EXCEPT ![s] = "warning"]
                       /\ UNCHANGED run_locals
                  ELSE /\ ui' = [ui EXCEPT ![s] = "thanks"]
                       /\ pc' = [pc EXCEPT ![s] = "insert"]
                       /\ idx' = [idx EXCEPT ![s] = 1]
                       /\ user_responses' = [user_responses EXCEPT ![s] = resps]
                       /\ submission_time' = [submission_time EXCEPT ![s] = now']
                       /\ UNCHANGED <<tx_ins, tx_upd>>
    /\ UNCHANGED <<store, user_comments, history, sq>>

\* the comment parameter of the INSERT:
\* st.session_state["user_comments"] if resp["content"] is None else None
\* (relevance_test.py has no comment column: always NULL there)
CommentParameter(s, resp) == IF resp.content = 0 THEN user_comments[s] ELSE NoComment

\* the row the INSERT adds for resp
EvaluationRecord(s, resp) ==
    [content |-> resp.content, headline |-> resp.headline,
     judgment |-> resp.judgment, start_time |-> s,
     submission_time |-> submission_time[s],
     comment |-> CommentParameter(s, resp)]

\* position of the loop after the statements for user_responses[idx]
Advance(s) ==
    IF idx[s] = Len(user_responses[s])
    THEN /\ pc' = [pc EXCEPT ![s] = "commit"]
         /\ UNCHANGED idx
    ELSE /\ pc' = [pc EXCEPT ![s] = "insert"]
         /\ idx' = [idx EXCEPT ![s] = idx[s] + 1]

\* cur.execute(insert_query, ...)
Insert(s) ==
    /\ pc[s] = "insert"
    /\ LET resp == user_responses[s][idx[s]] IN
          /\ tx_ins' = [tx_ins EXCEPT ![s] = Append(@, EvaluationRecord(s, resp))]
          /\ IF resp.content # 0
             THEN pc' = [pc EXCEPT ![s] = "update"] /\ UNCHANGED idx
             ELSE Advance(s)
    /\ UNCHANGED <<store, session_state, user_comments, ui, user_responses, submission_time,
                   tx_upd, now, history, sq>>

\* WHERE content = %s AND headline = %s AND beta = %s AND model = %s
RowsMatching_ContentOnly(resp) == {r \in PoolRows : r.content = resp.content}
RowsMatching(resp) ==
    {r \in PoolRows : r.content = resp.content /\ r.headline = resp.headline}

\* the rows on which another open transaction holds a row lock
LockedByOthers(s) ==
    {r \in PoolRows : \E t \in Sessions \ {s} : tx_upd[t][r] > 0}

\* cur.execute(update_query, ...): waits while another transaction holds the row
Update(s) ==
    /\ pc[s] = "update"
    /\ LET M == RowsMatching(user_responses[s][idx[s]]) IN
          /\ M \cap LockedByOthers(s) = {}
          /\ tx_upd' = [tx_upd EXCEPT ![s] =
                          [r \in PoolRows |-> IF r \in M THEN @[r] + 1 ELSE @[r]]]
    /\ Advance(s)
    /\ UNCHANGED <<store, session_state, user_comments, ui, user_responses, submission_time,
                   tx_ins, now, history, sq>>

RECURSIVE SeqToBag(_)
SeqToBag(q) == IF q = <<>> THEN EmptyBag ELSE SetToBag({Head(q)}) (+) SeqToBag(Tail(q))

\* SET status = status + 1, as the commit makes it visible
StatusAfterCommit_ReadThenWrite(s) ==
    [r \in PoolRows |-> IF tx_upd[s][r] > 0 THEN df_pairs[s][r] + 1 ELSE status[r]]
StatusAfterCommit(s) == [r \in PoolRows |-> status[r] + tx_upd[s][r]]

\* the locals of main() are gone when a run ends
EndRun(s) ==
    /\ pc' = [pc EXCEPT ![s] = "idle"]
    /\ idx' = [idx EXCEPT ![s] = 0]
    /\ user_responses' = [user_responses EXCEPT ![s] = <<>>]
    /\ submission_time' = [submission_time EXCEPT ![s] = 0]
    /\ tx_ins' = [tx_ins EXCEPT ![s] = <<>>]
    /\ tx_upd' = [tx_upd EXCEPT ![s] = NoIncrements]

\* conn.commit(), st.success, conn.close()
Commit(s) ==
    /\ pc[s] = "commit"
    /\ status' = StatusAfterCommit(s)
    /\ evaluations' = evaluations (+) SeqToBag(tx_ins[s])
    /\ ui' = [ui EXCEPT ![s] = "success"]
    /\ committed' = committed \cup
          {[sess |-> s, time |-> submission_time[s], rows |-> Range(df_questions[s]),
            overlap |-> \E t \in Sessions \ {s} : pc[t] # "idle"]}
    /\ EndRun(s)
    /\ UNCHANGED <<session_state, user_comments, now, status0, aborted, sq>>

\* the store after conn.close() on a connection that did not commit
StoreAfterClose_Autocommit(s) ==
    <<StatusAfterCommit(s), evaluations (+) SeqToBag(tx_ins[s])>>
StoreAfterClose(s) == <<status, evaluations>>

\* a statement of the submit loop raises (connection lost, deadlock victim):
\* the exception leaves main() through finally: conn.close()
Fail(s) ==
    /\ pc[s] \in {"insert", "update"}
    /\ status' = StoreAfterClose(s)[1]
    /\ evaluations' = StoreAfterClose(s)[2]
    /\ ui' = [ui EXCEPT ![s] = "error"]
    /\ aborted' = aborted \cup
          {[sess |-> s, time |-> submission_time[s],
            done |-> 2 * (idx[s] - 1) + (IF pc[s] = "update" THEN 1 ELSE 0)]}
    /\ EndRun(s)
    /\ UNCHANGED <<session_state, user_comments, now, status0, committed, sq>>

Next ==
    \/ \E s \in Sessions : Render(s)
    \/ \E s \in Sessions : \E i \in 1 .. N : \E v \in RaterPicks : Select(s, i, v)
    \/ \E s \in Sessions : SubmitAnswers(s)
    \/ \E s \in Sessions : Insert(s)
    \/ \E s \in Sessions : Update(s)
    \/ \E s \in Sessions : Commit(s)
    \/ \E s \in Sessions : Fail(s)

Spec == Init /\ [][Next]_vars

----------------------------------------------------------------------------
(* The clickbait survey: main() with the comment field                     *)

\* the rater edits the st.text_area: a run of main() that stores the text
EditComment(s, txt) ==
    /\ pc[s] = "idle"
    /\ "df_questions" \in session_keys[s]
    /\ df_questions[s] # <<>>
    /\ txt # user_comments[s]
    /\ \E o \in Draws(s) :
          /\ Script(s, o, <<>>)
          /\ ui' = [ui EXCEPT ![s] = Page(o)]
          /\ user_comments' = [user_comments EXCEPT
                                 ![s] = IF o.ok THEN txt ELSE user_comments[s]]
    /\ UNCHANGED <<store, run_locals, now, history, sq>>

NextClickbait ==
    \/ Next
    \/ \E s \in Sessions : \E txt \in CommentTexts : EditComment(s, txt)

SpecClickbait == Init /\ [][NextClickbait]_vars

----------------------------------------------------------------------------
(* sample_questions as a pure function: one call on any table and any n    *)

InitSample ==
    /\ sq \in {[app |-> a, df |-> d, n |-> n, called |-> FALSE, out |-> ValueError(d)] :
                 a \in Apps, d \in [PoolRows -> InitStatuses], n \in 1 .. MaxN}
    /\ status = sq.df
    /\ InitSessions

CallSample ==
    /\ ~sq.called
    /\ \E o \in sample_questions(sq.app, sq.df, sq.n) :
          sq' = [sq EXCEPT !.called = TRUE, !.out = o]
    /\ UNCHANGED <<store, session_state, user_comments, ui, run_locals, now, history>>

NextSample == CallSample

SpecSample == InitSample /\ [][NextSample]_vars

----------------------------------------------------------------------------
(* Properties                                                              *)

\* the number of committed submissions whose batch contained row r
CommittedWith(r) == Cardinality({c \in committed : r \in c.rows})

\* the number of evaluation rows in the store that satisfy P
CountEvaluations(P(_)) ==
    BagCardinality([e \in {x \in BagToSet(evaluations) : P(x)} |-> evaluations[e]])

\* the evaluation rows session s wrote for the survey row r
RecordsOf(s, r) ==
    CountEvaluations(LAMBDA e : /\ e.start_time = s
                                /\ e.content = r.content
                                /\ e.headline = r.headline)

\* the evaluation rows of the submission session s made at time t
RecordsOfSubmission(s, t) ==
    CountEvaluations(LAMBDA e : e.start_time = s /\ e.submission_time = t)

AllIdle == \A s \in Sessions : pc[s] = "idle"

\* C1: in every reachable state of the store, every row's status is at most
\* the ceiling C, whatever the sessions load, draw and submit
C1_StatusNeverExceedsCeiling == \A r \in PoolRows : status[r] <= C

\* C2: a Submit press in a session whose batch has an item with the empty
\* judgment "" ends that run without a transaction: no evaluation row is
\* inserted, no status is changed
C2_IncompleteSubmitWritesNothing ==
    [][\A s \in Sessions :
          (now' # now /\ pc[s] = "idle" /\ "" \in Range(judgment[s]))
             => /\ pc'[s] = "idle"
                /\ tx_ins'[s] = <<>>
                /\ tx_upd'[s] = NoIncrements
                /\ store' = store]_vars

\* a Submit press was rejected while some questions were answered and some not
C2_Witness ==
    \E s \in Sessions :
       /\ ui[s] = "warning"
       /\ "" \in Range(judgment[s])
       /\ "Yes" \in Range(judgment[s])
       /\ now > 0

\* C3: for every session and every item of its batch the store holds at
\* most one evaluation row, and exactly one once the session has submitted
\* successfully, however often Submit is pressed
C3_OneRecordPerSessionItem ==
    \A s \in Sessions : \A r \in Range(df_questions[s]) :
       /\ RecordsOf(s, r) <= 1
       /\ (\E c \in committed : c.sess = s) => RecordsOf(s, r) = 1

\* C4: once every submission has ended, each row's status is its initial
\* status plus the number of committed submissions whose batch contained it
C4_NoLostIncrement ==
    AllIdle => \A r \in PoolRows : status[r] = status0[r] + CommittedWith(r)

\* two sessions committed a batch with a common row, one of them while the
\* other's transaction was open
C4_Witness ==
    /\ AllIdle
    /\ \E c1, c2 \in committed :
          /\ c1.sess # c2.sess
          /\ c1.overlap
          /\ c1.rows \cap c2.rows # {}

\* C5: once a session holds a batch, every later run of main() leaves it
\* the same items in the same order
C5_BatchDrawnOnce ==
    [][\A s \in Sessions :
          "df_questions" \in session_keys[s] => df_questions'[s] = df_questions[s]]_vars

\* a session was rendered again after its first draw: an answer was
\* selected and a Submit press was rejected
C5_Witness ==
    \E s \in Sessions :
       /\ "df_questions" \in session_keys[s]
       /\ ui[s] = "warning"
       /\ "Yes" \in Range(judgment[s])
       /\ Len(df_questions[s]) = N

\* the distinct content values among the rows of df with status < C
DistinctEligibleContents(df) ==
    {r.content : r \in {x \in DOMAIN df : df[x] < C /\ x.content # 0}}

\* C6: sample_questions returns a batch, and its size is the smaller of n
\* and the number of distinct eligible content values
C6_BatchSizeIsMin ==
    sq.called =>
       /\ sq.out.ok
       /\ Len(sq.out.rows) = Min(sq.n, Cardinality(DistinctEligibleContents(sq.df)))

\* C7: in a batch sample_questions returns no two items share a content
\* value, and every item is a row of the table with status < C
C7_BatchDistinctAndEligible ==
    (sq.called /\ sq.out.ok) =>
       /\ \A i, j \in DOMAIN sq.out.rows :
             i # j => sq.out.rows[i].content # sq.out.rows[j].content
       /\ \A i \in DOMAIN sq.out.rows :
             /\ sq.out.rows[i] \in DOMAIN sq.df
             /\ sq.df[sq.out.rows[i]] < C

\* a batch of two items drawn from a table that holds an eligible and an
\* exhausted headline of the same content
C7_Witness ==
    /\ sq.called
    /\ sq.out.ok
    /\ Len(sq.out.rows) >= 2
    /\ \E r1, r2 \in DOMAIN sq.df :
          /\ r1.content = r2.content
          /\ r1 \in Range(sq.out.rows)
          /\ sq.df[r2] >= C

\* C8: a submission whose run ended without commit has left no evaluation
\* row in the store, and no status increment: every increment of a status
\* belongs to a committed submission
C8_FailedSubmissionLeavesNothing ==
    \A a \in aborted :
       /\ RecordsOfSubmission(a.sess, a.time) = 0
       /\ AllIdle => \A r \in PoolRows : status[r] - status0[r] = CommittedWith(r)

\* a submission failed after statements of its loop had been executed
C8_Witness ==
    /\ AllIdle
    /\ \E a \in aborted : a.done >= 2

\* an evaluation row without its comment column
WithoutComment(e) ==
    [content |-> e.content, headline |-> e.headline, judgment |-> e.judgment,
     start_time |-> e.start_time, submission_time |-> e.submission_time]

RECURSIVE CopiesOfAll(_, _)
CopiesOfAll(S, B) ==
    IF S = {} THEN 0
    ELSE LET e == CHOOSE x \in S : TRUE IN B[e] + CopiesOfAll(S \ {e}, B)

\* the bag B of evaluation rows, the comment column dropped
StripComments(B) ==
    [x \in {WithoutComment(e) : e \in BagToSet(B)} |->
        CopiesOfAll({e \in BagToSet(B) : WithoutComment(e) = x}, B)]

\* the evaluation rows a submission of session s owes: one per batch item
OneRecordPerItem(s) ==
    SeqToBag([i \in 1 .. Len(df_questions[s]) |->
                [content |-> df_questions[s][i].content,
                 headline |-> df_questions[s][i].headline,
                 judgment |-> judgment[s][i],
                 start_time |-> s,
                 submission_time |-> submission_time[s]]])

\* C9: the commit of a submission adds one evaluation row per batch item
\* (whatever its comment column holds),
\* adds exactly 1 to the status of every row of the batch and leaves the
\* status of every other row unchanged
C9_CommitEffect ==
    [][\A s \in Sessions :
          (pc[s] = "commit" /\ pc'[s] = "idle")
             => /\ StripComments(evaluations') =
                      StripComments(evaluations) (+) OneRecordPerItem(s)
                /\ status' = [r \in PoolRows |->
                                IF r \in Range(df_questions[s])
                                THEN status[r] + 1 ELSE status[r]]]_vars

\* a submission has committed while the table holds rows outside its batch
C9_Witness ==
    \E c \in committed :
       /\ ui[c.sess] = "success"
       /\ Cardinality(c.rows) = N
       /\ PoolRows \ c.rows # {}

\* C10: a run that loads the pool or draws the batch leaves the store
\* unchanged and leaves the in-memory table equal to what was loaded, and
\* the store changes only in the commit of a submission
C10_LoadAndDrawWriteNothing ==
    [][/\ \A s \in Sessions :
             session_keys'[s] # session_keys[s]
                => /\ store' = store
                   /\ df_pairs'[s] = IF "df_pairs" \in session_keys[s]
                                     THEN df_pairs[s] ELSE status
       /\ store' # store
             => \E s \in Sessions :
                   /\ pc[s] = "commit"
                   /\ pc'[s] = "idle"
                   /\ committed' # committed]_vars

\* a session drew its batch, its rater answered, and nobody ever pressed
\* Submit: the store is as it was found
C10_Witness ==
    \E s \in Sessions :
       /\ "df_questions" \in session_keys[s]
       /\ "Yes" \in Range(judgment[s])
       /\ now = 0
       /\ status = status0
       /\ evaluations = EmptyBag

\* C11: in the clickbait survey, when a submission of a fully judged batch
\* commits while the comment field holds a non-empty text, one of the
\* evaluation rows of that submission holds the text
C11_CommentIsStored ==
    [][\A s \in Sessions :
          (pc[s] = "commit" /\ pc'[s] = "idle" /\ user_comments[s] # "")
             => \E e \in BagToSet(evaluations') :
                   /\ e.start_time = s
                   /\ e.submission_time = submission_time[s]
                   /\ e.comment = user_comments[s]]_vars

====
